---- MODULE Spec2Model ----
(***************************************************************************)
(* Model of polygon_to_bbox_converter.py: the point extractor, the         *)
(* bounding-box reducer, the per-document aggregator and the directory     *)
(* driver that accumulates the records and writes the CSV file.            *)
(*                                                                         *)
(* JSON values are modelled structurally.  A JSON number is held in        *)
(* halves (the integer h stands for h/2), so that int() is a real          *)
(* truncation.  A Python dict is a record holding exactly the keys that    *)
(* are present, so `'k' in d` is "k" \in DOMAIN d.  A call either returns  *)
(* a value or raises: [raised |-> FALSE, value |-> v] or                   *)
(* [raised |-> TRUE, value |-> <<>>].                                      *)
(***************************************************************************)
EXTENDS Integers, Sequences, FiniteSets, TLC

VARIABLES
    pc,          \* position of the running call
    points,      \* polygon_to_bbox: the vertex list passed in
    bbox,        \* polygon_to_bbox: the tuple returned
    shape,       \* extract_polygon_points: the shape dict passed in
    extracted,   \* extract_polygon_points: the outcome of the call
    json_path,   \* process_json_file: the file passed in
    bboxes,      \* process_json_file: the outcome of the call
    input_dir,   \* convert_directory_to_csv: the directory on disk
    json_files,  \* convert_directory_to_csv: the globbed file list
    idx,         \* convert_directory_to_csv: files of json_files consumed
    all_bboxes,  \* convert_directory_to_csv: the accumulated records
    output_csv,  \* the output file on disk
    stdout       \* the messages printed so far

vars == <<pc, points, bbox, shape, extracted, json_path, bboxes,
          input_dir, json_files, idx, all_bboxes, output_csv, stdout>>

(***************************************************************************)
(* Bounds                                                                  *)
(***************************************************************************)
MaxCoord == 1
MaxPoints == 3
MaxComps == 3
MaxEntries == 2
MaxShapes == 2
MaxFiles == 3

(***************************************************************************)
(* Outcomes of a call                                                      *)
(***************************************************************************)
Return(v) == [raised |-> FALSE, value |-> v]

Raise == [raised |-> TRUE, value |-> <<>>]

(***************************************************************************)
(* JSON values                                                             *)
(***************************************************************************)
Num(h) == [t |-> "number", half |-> h]

Null == [t |-> "null", half |-> 0]

Arr(items) == [t |-> "array", items |-> items]

NullEntry == [t |-> "null", items |-> <<>>]

\* int(v): truncation toward zero of a number; TypeError on null
IntRaises(v) == v.t # "number"

int(v) == IF v.half >= 0 THEN v.half \div 2 ELSE -((-v.half) \div 2)

(***************************************************************************)
(* extract_polygon_points                                                  *)
(***************************************************************************)
KeepsPoint(point) == Len(point.items) >= 2

RECURSIVE ExtractLoop(_, _, _)
ExtractLoop(raw, i, acc) ==
    IF i > Len(raw) THEN Return(acc)
    ELSE LET point == raw[i] IN
         IF point.t # "array" THEN Raise                 \* len(None)
         ELSE IF KeepsPoint(point)
              THEN IF IntRaises(point.items[1]) \/ IntRaises(point.items[2])
                   THEN Raise                            \* int(None)
                   ELSE ExtractLoop(raw, i + 1,
                            Append(acc, <<int(point.items[1]), int(point.items[2])>>))
              ELSE ExtractLoop(raw, i + 1, acc)

extract_polygon_points(s) ==
    IF "points" \notin DOMAIN s THEN Return(<<>>)
    ELSE ExtractLoop(s.points, 1, <<>>)

(***************************************************************************)
(* polygon_to_bbox                                                         *)
(***************************************************************************)
RECURSIVE MinOf(_)
MinOf(xs) ==
    IF Len(xs) = 1 THEN xs[1]
    ELSE LET m == MinOf(Tail(xs)) IN IF xs[1] < m THEN xs[1] ELSE m

RECURSIVE MaxOf(_)
MaxOf(xs) ==
    IF Len(xs) = 1 THEN xs[1]
    ELSE LET m == MaxOf(Tail(xs)) IN IF xs[1] > m THEN xs[1] ELSE m

polygon_to_bbox_absmax(pts) ==
    IF pts = <<>> THEN <<0, 0, 0, 0>>
    ELSE LET x_coords == [k \in 1..Len(pts) |-> pts[k][1]]
             y_coords == [k \in 1..Len(pts) |-> pts[k][2]]
         IN  <<MinOf(x_coords), MinOf(y_coords), MaxOf(x_coords), MaxOf(y_coords)>>

polygon_to_bbox_first(pts) ==
    IF pts = <<>> THEN <<0, 0, 0, 0>>
    ELSE LET x_coords == [k \in 1..Len(pts) |-> pts[k][1]]
             y_coords == [k \in 1..Len(pts) |-> pts[k][2]]
         IN  <<pts[1][1], pts[1][2],
               MaxOf(x_coords) - MinOf(x_coords),
               MaxOf(y_coords) - MinOf(y_coords)>>

polygon_to_bbox(pts) ==
    IF pts = <<>> THEN <<0, 0, 0, 0>>
    ELSE LET x_coords == [k \in 1..Len(pts) |-> pts[k][1]]
             y_coords == [k \in 1..Len(pts) |-> pts[k][2]]
             min_x == MinOf(x_coords)
             max_x == MaxOf(x_coords)
             min_y == MinOf(y_coords)
             max_y == MaxOf(y_coords)
         IN  <<min_x, min_y, max_x - min_x, max_y - min_y>>

(***************************************************************************)
(* process_json_file                                                       *)
(***************************************************************************)
Msg(text, file, n) == [text |-> text, file |-> file, n |-> n]

Outcome(raised, value, printed) ==
    [raised |-> raised, value |-> value, printed |-> printed]

IsPolygonAnyCase(s) ==
    "shape_type" \in DOMAIN s /\ s.shape_type \in {"polygon", "Polygon"}

IsPolygon(s) == "shape_type" \in DOMAIN s /\ s.shape_type = "polygon"

LabelOf(s) == IF "label" \in DOMAIN s THEN s.label ELSE "unknown"

IsInvalidBoxOnlyBoth(width, height) == width <= 0 /\ height <= 0

IsInvalidBox(width, height) == width <= 0 \/ height <= 0

ImageFilename(data, stem) ==
    IF "imagePath" \in DOMAIN data THEN data.imagePath ELSE stem \o ".png"

RECURSIVE ShapeLoop(_, _, _, _)
ShapeLoop(shapes, i, image_filename, acc) ==
    IF i > Len(shapes) THEN Outcome(FALSE, acc, <<>>)
    ELSE LET s == shapes[i] IN
         IF ~IsPolygon(s) THEN ShapeLoop(shapes, i + 1, image_filename, acc)
         ELSE LET label == LabelOf(s)
                  pts == extract_polygon_points(s)
              IN  IF pts.raised THEN Outcome(TRUE, <<>>, <<>>)
                  ELSE IF pts.value = <<>>
                       THEN ShapeLoop(shapes, i + 1, image_filename, acc)
                       ELSE LET box == polygon_to_bbox(pts.value) IN
                            IF IsInvalidBox(box[3], box[4])
                            THEN ShapeLoop(shapes, i + 1, image_filename, acc)
                            ELSE ShapeLoop(shapes, i + 1, image_filename,
                                     Append(acc, [filename |-> image_filename,
                                                  col_x |-> box[1],
                                                  row_y |-> box[2],
                                                  width |-> box[3],
                                                  height |-> box[4],
                                                  label |-> label]))

process_json_file(jp) ==
    CASE jp.kind \in {"missing", "invalid_json"} ->
             Outcome(FALSE, <<>>, <<Msg("Error reading", jp.stem, 0)>>)
      [] jp.kind = "unreadable" -> Outcome(TRUE, <<>>, <<>>)
      [] jp.kind = "number" -> Outcome(TRUE, <<>>, <<>>)
      [] jp.kind = "array" ->
             Outcome(FALSE, <<>>, <<Msg("No 'shapes' key found", jp.stem, 0)>>)
      [] jp.kind = "object" ->
             IF "shapes" \notin DOMAIN jp.data
             THEN Outcome(FALSE, <<>>, <<Msg("No 'shapes' key found", jp.stem, 0)>>)
             ELSE ShapeLoop(jp.data.shapes, 1, ImageFilename(jp.data, jp.stem), <<>>)

(***************************************************************************)
(* write_bboxes_to_csv                                                     *)
(***************************************************************************)
fieldnames == <<"filename", "col_x", "row_y", "width", "height", "label">>

Row(r) == <<r.filename, r.col_x, r.row_y, r.width, r.height, r.label>>

NoFile == [exists |-> FALSE, header |-> <<>>, rows |-> <<>>]

StaleFile == [exists |-> TRUE, header |-> <<"stale">>, rows |-> <<>>]

write_bboxes_to_csv(bb) ==
    [exists |-> TRUE, header |-> fieldnames,
     rows |-> [k \in 1..Len(bb) |-> Row(bb[k])]]

(***************************************************************************)
(* Inputs                                                                  *)
(***************************************************************************)
SeqsUpTo(S, n) == UNION {[1..k -> S] : k \in 0..n}

\* vertex lists handed to polygon_to_bbox
Coords == -1..MaxCoord

VertexLists == SeqsUpTo(Coords \X Coords, MaxPoints)

\* shapes handed to extract_polygon_points
\* the first two components vary over -1.5, 1.5 and null; the code reads no
\* component past the second, so longer entries are padded with one value
Components == {Num(-3), Num(3), Null}

Padding(n) == [k \in 1..n |-> Num(14)]

Entries ==
    {Arr(items) : items \in SeqsUpTo(Components, 2)}
      \cup {Arr(items \o Padding(n)) : items \in [1..2 -> Components], n \in 1..(MaxComps - 2)}
      \cup {NullEntry}

ExtractShapes ==
    {[shape_type |-> "polygon"]}
      \cup {[shape_type |-> "polygon", points |-> p] : p \in SeqsUpTo(Entries, MaxEntries)}

\* documents handed to process_json_file
Pt(x, y) == Arr(<<Num(2 * x), Num(2 * y)>>)

DocPoints ==
    { <<Pt(0, 0), Pt(2, 3)>>,                                   \* box (0,0,2,3)
      <<Arr(<<Num(14)>>), Arr(<<Num(3), Num(2)>>), Arr(<<Num(6), Num(5), Num(14)>>)>>,
                                         \* [[7],[1.5,1],[3,2.5,7]]: box (1,1,2,1)
      <<Pt(1, 1), Pt(1, 4)>>,                                   \* zero width
      <<Pt(1, 1), Pt(4, 1)>>,                                   \* zero height
      <<Arr(<<Num(10)>>)>>,                                     \* no valid vertex
      <<Pt(0, 0), Arr(<<Null, Num(2)>>), Pt(2, 3)>> }           \* int(None)

DocShapes ==
    LET WithType == {[shape_type |-> t] : t \in {"polygon", "Polygon", "line"}}
                       \cup {<<>>}
        WithLabel == WithType \cup {s @@ [label |-> "cat"] : s \in WithType}
    IN  WithLabel \cup {s @@ [points |-> p] : s \in WithLabel, p \in DocPoints}

JsonFile(kind, data) == [stem |-> "scan1", kind |-> kind, data |-> data]

PlainFiles ==
    {JsonFile(k, <<>>) : k \in {"missing", "invalid_json", "unreadable",
                                 "number", "array", "object"}}
      \cup {JsonFile("object", [imagePath |-> "photo.jpg"])}

ShapeLists == UNION {{[1..n -> DocShapes]} : n \in 0..MaxShapes}

\* files found in the input directory
Polygon(label, p) == [shape_type |-> "polygon", label |-> label, points |-> p]

DirFiles ==
    {JsonFile(k, <<>>) : k \in {"missing", "invalid_json", "unreadable",
                                 "number", "array", "object"}}
      \cup {JsonFile("object", [shapes |-> ss]) :
               ss \in { <<>>,
                        <<Polygon("cat", <<Pt(0, 0), Pt(2, 3)>>)>>,
                        <<Polygon("dog", <<Pt(5, 5), Pt(6, 9)>>),
                          [shape_type |-> "line", label |-> "rail",
                           points |-> <<Pt(0, 0), Pt(2, 3)>>]>>,
                        <<Polygon("cat", <<Pt(1, 1), Pt(1, 4)>>)>>,
                        <<Polygon("cat", <<Pt(0, 0), Arr(<<Null, Num(2)>>)>>)>> }}
      \cup {JsonFile("object", [shapes |-> ss, imagePath |-> "photo.jpg"]) :
               ss \in { <<Polygon("cat", <<Pt(1, 1), Pt(4, 1)>>),
                          Polygon("dog", <<Pt(0, 0), Pt(2, 3)>>),
                          [label |-> "cat", points |-> <<Pt(5, 5), Pt(6, 9)>>]>> }}

Directories ==
    {[exists |-> FALSE, files |-> <<>>]}
      \cup {[exists |-> TRUE, files |-> fs] : fs \in SeqsUpTo(DirFiles, MaxFiles)}

(***************************************************************************)
(* Initial states: one per call and argument                               *)
(***************************************************************************)
NoOutcome == Outcome(FALSE, <<>>, <<>>)

Idle(names) ==
    /\ "points" \in names \/ points = <<>>
    /\ "bbox" \in names \/ bbox = <<0, 0, 0, 0>>
    /\ "shape" \in names \/ shape = <<>>
    /\ "extracted" \in names \/ extracted = Return(<<>>)
    /\ "json_path" \in names \/ json_path = JsonFile("missing", <<>>)
    /\ "bboxes" \in names \/ bboxes = NoOutcome
    /\ "input_dir" \in names \/ input_dir = [exists |-> FALSE, files |-> <<>>]
    /\ "output_csv" \in names \/ output_csv = NoFile
    /\ json_files = <<>>
    /\ idx = 0
    /\ all_bboxes = <<>>
    /\ stdout = <<>>

InitBBox ==
    /\ pc = "polygon_to_bbox"
    /\ points \in VertexLists
    /\ Idle({"points"})

InitExtract ==
    /\ pc = "extract_polygon_points"
    /\ shape \in ExtractShapes
    /\ Idle({"shape"})

InitProcess ==
    /\ pc = "process_json_file"
    /\ \/ json_path \in PlainFiles
       \/ \E lists \in ShapeLists : \E ss \in lists :
             \/ json_path = JsonFile("object", [shapes |-> ss])
             \/ json_path = JsonFile("object", [shapes |-> ss, imagePath |-> "photo.jpg"])
    /\ Idle({"json_path"})

InitConvert ==
    /\ pc = "convert_directory_to_csv"
    /\ input_dir \in Directories
    /\ output_csv \in {NoFile, StaleFile}
    /\ Idle({"input_dir", "output_csv"})

Init == InitBBox \/ InitExtract \/ InitProcess \/ InitConvert

(***************************************************************************)
(* Actions                                                                 *)
(***************************************************************************)
CallPolygonToBBox ==
    /\ pc = "polygon_to_bbox"
    /\ bbox' = polygon_to_bbox(points)
    /\ pc' = "polygon_to_bbox:return"
    /\ UNCHANGED <<points, shape, extracted, json_path, bboxes, input_dir,
                   json_files, idx, all_bboxes, output_csv, stdout>>

CallExtractPolygonPoints ==
    /\ pc = "extract_polygon_points"
    /\ extracted' = extract_polygon_points(shape)
    /\ pc' = IF extracted'.raised THEN "extract_polygon_points:raised"
             ELSE "extract_polygon_points:return"
    /\ UNCHANGED <<points, bbox, shape, json_path, bboxes, input_dir,
                   json_files, idx, all_bboxes, output_csv, stdout>>

CallProcessJsonFile ==
    /\ pc = "process_json_file"
    /\ bboxes' = process_json_file(json_path)
    /\ stdout' = stdout \o bboxes'.printed
    /\ pc' = IF bboxes'.raised THEN "process_json_file:raised"
             ELSE "process_json_file:return"
    /\ UNCHANGED <<points, bbox, shape, extracted, json_path, input_dir,
                   json_files, idx, all_bboxes, output_csv>>

\* convert_directory_to_csv, up to the loop
ConvertStart ==
    /\ pc = "convert_directory_to_csv"
    /\ IF ~input_dir.exists
       THEN /\ stdout' = Append(stdout, Msg("Input directory does not exist", "", 0))
            /\ pc' = "convert_directory_to_csv:return"
            /\ UNCHANGED json_files
       ELSE /\ json_files' = input_dir.files
            /\ IF json_files' = <<>>
               THEN /\ stdout' = Append(stdout, Msg("No JSON files found", "", 0))
                    /\ pc' = "convert_directory_to_csv:return"
               ELSE /\ stdout' = Append(stdout,
                                     Msg("Found JSON files to process", "", Len(json_files')))
                    /\ pc' = "convert_directory_to_csv:loop"
    /\ all_bboxes' = <<>>
    /\ UNCHANGED <<points, bbox, shape, extracted, json_path, bboxes, input_dir,
                   idx, output_csv>>

\* all_bboxes.extend(bboxes)
ExtendFront(acc, new) == new \o acc

Extend(acc, new) == acc \o new

\* one iteration of the loop over json_files
ConvertFile ==
    /\ pc = "convert_directory_to_csv:loop"
    /\ idx < Len(json_files)
    /\ LET json_file == json_files[idx + 1]
           r == process_json_file(json_file)
       IN  /\ json_path' = json_file
           /\ IF r.raised
              THEN /\ stdout' = Append(stdout, Msg("Processing", json_file.stem, 0))
                   /\ pc' = "convert_directory_to_csv:raised"
                   /\ UNCHANGED <<bboxes, all_bboxes, idx>>
              ELSE /\ bboxes' = r
                   /\ all_bboxes' = Extend(all_bboxes, r.value)
                   /\ stdout' = (Append(stdout, Msg("Processing", json_file.stem, 0))
                                   \o r.printed)
                                   \o <<Msg("Found bounding boxes", "", Len(r.value))>>
                   /\ idx' = idx + 1
                   /\ pc' = pc
    /\ UNCHANGED <<points, bbox, shape, extracted, input_dir, json_files, output_csv>>

\* after the loop: write the CSV file, or report that there is nothing to write
ConvertFinish ==
    /\ pc = "convert_directory_to_csv:loop"
    /\ idx = Len(json_files)
    /\ IF all_bboxes # <<>>
       THEN /\ output_csv' = write_bboxes_to_csv(all_bboxes)
            /\ stdout' = stdout \o <<Msg("Conversion complete", "", 0),
                                      Msg("Total bounding boxes", "", Len(all_bboxes))>>
       ELSE /\ stdout' = Append(stdout, Msg("No bounding boxes found to export", "", 0))
            /\ UNCHANGED output_csv
    /\ pc' = "convert_directory_to_csv:return"
    /\ UNCHANGED <<points, bbox, shape, extracted, json_path, bboxes, input_dir,
                   json_files, idx, all_bboxes>>

Next ==
    \/ CallPolygonToBBox
    \/ CallExtractPolygonPoints
    \/ CallProcessJsonFile
    \/ ConvertStart
    \/ ConvertFile
    \/ ConvertFinish

Spec == Init /\ [][Next]_vars

(***************************************************************************)
(* Properties                                                              *)
(***************************************************************************)
IsPrefix(a, b) == Len(a) <= Len(b) /\ SubSeq(b, 1, Len(a)) = a

RECURSIVE SelectShapes(_, _)
SelectShapes(shapes, keep) ==
    IF shapes = <<>> THEN <<>>
    ELSE IF keep[1] THEN <<shapes[1]>> \o SelectShapes(Tail(shapes), Tail(keep))
         ELSE SelectShapes(Tail(shapes), Tail(keep))

HasShapes(jp) == jp.kind = "object" /\ "shapes" \in DOMAIN jp.data

DeclaredPolygon(s) == "shape_type" \in DOMAIN s /\ s.shape_type = "polygon"

\* the vertices of a shape as the specification describes them: entries that
\* are not a sequence of two or more numbers are dropped, the others give
\* their first two numbers truncated toward zero
Trunc(h) == IF h >= 0 THEN h \div 2 ELSE -((-h) \div 2)

WellFormed(e) ==
    /\ e.t = "array"
    /\ Len(e.items) >= 2
    /\ e.items[1].t = "number"
    /\ e.items[2].t = "number"

RECURSIVE SpecVertices(_)
SpecVertices(raw) ==
    IF raw = <<>> THEN <<>>
    ELSE IF WellFormed(raw[1])
         THEN <<<<Trunc(raw[1].items[1].half), Trunc(raw[1].items[2].half)>>>>
                  \o SpecVertices(Tail(raw))
         ELSE SpecVertices(Tail(raw))

ShapeVertices(s) == IF "points" \in DOMAIN s THEN SpecVertices(s.points) ELSE <<>>

\* the smallest and the largest of a non-empty set of integers
Least(S) == CHOOSE m \in S : \A n \in S : m <= n

Greatest(S) == CHOOSE m \in S : \A n \in S : m >= n

XsOf(vs) == {vs[k][1] : k \in 1..Len(vs)}

YsOf(vs) == {vs[k][2] : k \in 1..Len(vs)}

SpecBox(vs) ==
    IF vs = <<>> THEN <<0, 0, 0, 0>>
    ELSE <<Least(XsOf(vs)), Least(YsOf(vs)),
           Greatest(XsOf(vs)) - Least(XsOf(vs)),
           Greatest(YsOf(vs)) - Least(YsOf(vs))>>

Qualifies(s) ==
    /\ DeclaredPolygon(s)
    /\ SpecBox(ShapeVertices(s))[3] > 0
    /\ SpecBox(ShapeVertices(s))[4] > 0

SpecFilename(jp) ==
    IF "imagePath" \in DOMAIN jp.data THEN jp.data.imagePath ELSE jp.stem \o ".png"

SpecRecord(jp, s) ==
    LET b == SpecBox(ShapeVertices(s)) IN
    [filename |-> SpecFilename(jp), col_x |-> b[1], row_y |-> b[2],
     width |-> b[3], height |-> b[4],
     label |-> IF "label" \in DOMAIN s THEN s.label ELSE "unknown"]

SpecRecords(jp) ==
    LET shapes == jp.data.shapes
        kept == SelectShapes(shapes, [i \in 1..Len(shapes) |-> Qualifies(shapes[i])])
    IN  [i \in 1..Len(kept) |-> SpecRecord(jp, kept[i])]

ProcessDone == pc \in {"process_json_file:return", "process_json_file:raised"}

ExtractDone == pc \in {"extract_polygon_points:return", "extract_polygon_points:raised"}

ConvertRunning ==
    pc \in {"convert_directory_to_csv:loop", "convert_directory_to_csv:return",
            "convert_directory_to_csv:raised"}

ConvertEnded ==
    pc \in {"convert_directory_to_csv:return", "convert_directory_to_csv:raised"}

\* C1: for every document with a shape list, process_json_file returns exactly
\* one record per polygon shape with a box of positive width and height, in
\* shape-list order, each with the shape's box and label and the document's
\* resolved filename.
C1_OneRecordPerQualifyingShape ==
    (ProcessDone /\ HasShapes(json_path))
        => (~bboxes.raised /\ bboxes.value = SpecRecords(json_path))

\* C2: every record returned by process_json_file, accumulated by
\* convert_directory_to_csv or written to the CSV file has width > 0 and
\* height > 0.
C2_NoDegenerateRecord ==
    /\ \A k \in 1..Len(bboxes.value) :
          bboxes.value[k].width > 0 /\ bboxes.value[k].height > 0
    /\ \A k \in 1..Len(all_bboxes) :
          all_bboxes[k].width > 0 /\ all_bboxes[k].height > 0
    /\ output_csv.header = fieldnames =>
          \A k \in 1..Len(output_csv.rows) :
              output_csv.rows[k][4] > 0 /\ output_csv.rows[k][5] > 0

HasDegeneratePolygon(jp) ==
    /\ HasShapes(jp)
    /\ \E i \in 1..Len(jp.data.shapes) :
          LET s == jp.data.shapes[i] IN
          /\ DeclaredPolygon(s)
          /\ ShapeVertices(s) # <<>>
          /\ SpecBox(ShapeVertices(s))[3] = 0
          /\ SpecBox(ShapeVertices(s))[4] > 0

C2_Witness ==
    /\ pc = "convert_directory_to_csv:return"
    /\ output_csv.header = fieldnames
    /\ \E k \in 1..Len(json_files) : HasDegeneratePolygon(json_files[k])

WithoutOtherTypes(jp) ==
    LET shapes == jp.data.shapes IN
    [jp EXCEPT !.data.shapes =
        SelectShapes(shapes, [i \in 1..Len(shapes) |-> DeclaredPolygon(shapes[i])])]

\* C3: a shape whose shape_type is not exactly "polygon" (another type,
\* another spelling, or none) never produces a record and is not an error:
\* the outcome for the document is the outcome for the same document with
\* those shapes taken out.
C3_NonPolygonSkipped ==
    (ProcessDone /\ HasShapes(json_path))
        => /\ bboxes = process_json_file(WithoutOtherTypes(json_path))
           /\ (\A i \in 1..Len(json_path.data.shapes) :
                   ~DeclaredPolygon(json_path.data.shapes[i]))
                 => (~bboxes.raised /\ bboxes.value = <<>>)

C3_Witness ==
    /\ pc = "process_json_file:return"
    /\ HasShapes(json_path)
    /\ Len(json_path.data.shapes) = 2
    /\ Len(bboxes.value) = 1
    /\ \E i \in 1..2 :
          LET s == json_path.data.shapes[i] IN
          /\ "shape_type" \in DOMAIN s
          /\ s.shape_type = "Polygon"
          /\ "points" \in DOMAIN s
          /\ SpecBox(ShapeVertices(s))[3] > 0
          /\ SpecBox(ShapeVertices(s))[4] > 0

Reverse(q) == [k \in 1..Len(q) |-> q[Len(q) + 1 - k]]

\* C4: polygon_to_bbox(V) is (min x, min y, max x - min x, max y - min y) over
\* a non-empty V, with width and height >= 0 (a single vertex (x, y) gives
\* (x, y, 0, 0)), and (0, 0, 0, 0) for the empty V; the order and the
\* multiplicity of the vertices do not matter.
C4_BoxIsMinAndExtent ==
    pc = "polygon_to_bbox:return" =>
        /\ points = <<>> => bbox = <<0, 0, 0, 0>>
        /\ points # <<>> =>
              /\ bbox[1] = Least(XsOf(points))
              /\ bbox[2] = Least(YsOf(points))
              /\ bbox[3] = Greatest(XsOf(points)) - Least(XsOf(points))
              /\ bbox[4] = Greatest(YsOf(points)) - Least(YsOf(points))
              /\ bbox[3] >= 0
              /\ bbox[4] >= 0
              /\ polygon_to_bbox(Reverse(points)) = bbox
              /\ polygon_to_bbox(points \o <<points[Len(points)]>>) = bbox
        /\ Len(points) = 1 => bbox = <<points[1][1], points[1][2], 0, 0>>

C4_Witness ==
    /\ pc = "polygon_to_bbox:return"
    /\ Len(points) = 3
    /\ bbox[3] > 0
    /\ bbox[4] > 0
    /\ points[1] # <<bbox[1], bbox[2]>>
    /\ points[2] = points[3]

\* C9: for a non-empty V the box returned by polygon_to_bbox contains every
\* vertex of V, and each of its four sides passes through a vertex of V.
C9_SmallestEnclosingBox ==
    (pc = "polygon_to_bbox:return" /\ points # <<>>) =>
        /\ \A k \in 1..Len(points) :
              /\ bbox[1] <= points[k][1]
              /\ points[k][1] <= bbox[1] + bbox[3]
              /\ bbox[2] <= points[k][2]
              /\ points[k][2] <= bbox[2] + bbox[4]
        /\ \E k \in 1..Len(points) : points[k][1] = bbox[1]
        /\ \E k \in 1..Len(points) : points[k][1] = bbox[1] + bbox[3]
        /\ \E k \in 1..Len(points) : points[k][2] = bbox[2]
        /\ \E k \in 1..Len(points) : points[k][2] = bbox[2] + bbox[4]

C9_Witness ==
    /\ pc = "polygon_to_bbox:return"
    /\ Len(points) = 3
    /\ bbox[1] < 0
    /\ bbox[3] > 0
    /\ bbox[4] > 0
    /\ \E k \in 1..3 :
          /\ bbox[1] < points[k][1]
          /\ points[k][1] < bbox[1] + bbox[3]
          /\ bbox[2] < points[k][2]
          /\ points[k][2] < bbox[2] + bbox[4]

ComponentsOf(e) == IF e.t = "array" THEN e.items ELSE <<>>

RECURSIVE PairsOfLongEntries(_)
PairsOfLongEntries(raw) ==
    IF raw = <<>> THEN <<>>
    ELSE LET c == ComponentsOf(raw[1]) IN
         IF Len(c) >= 2
         THEN <<<<Trunc(c[1].half), Trunc(c[2].half)>>>> \o PairsOfLongEntries(Tail(raw))
         ELSE PairsOfLongEntries(Tail(raw))

\* C5: extract_polygon_points returns the empty list for a shape without
\* 'points', and otherwise the entries that have two or more components, each
\* as the integer pair of its first two components, in order and with
\* duplicates kept; shorter entries are dropped.
C5_ExtractsLongEntriesInOrder ==
    ExtractDone =>
        /\ ~extracted.raised
        /\ "points" \notin DOMAIN shape => extracted.value = <<>>
        /\ "points" \in DOMAIN shape => extracted.value = PairsOfLongEntries(shape.points)

\* C7: an entry of the points list that is not a sequence of two or more
\* numbers is dropped without an error, and the vertices of the remaining
\* entries are still extracted.
C7_MalformedEntryDropped ==
    (ExtractDone /\ "points" \in DOMAIN shape) =>
        \/ \A k \in 1..Len(shape.points) : WellFormed(shape.points[k])
        \/ (~extracted.raised /\ extracted.value = SpecVertices(shape.points))

Reported(jp) ==
    \E m \in 1..Len(stdout) :
        /\ stdout[m].text \in {"Error reading", "No 'shapes' key found"}
        /\ stdout[m].file = jp.stem

\* C6: in convert_directory_to_csv a document that cannot be read or parsed
\* as an object with a shape list is reported, contributes no record and does
\* not stop the run.
C6_MalformedDocumentSkipped ==
    ConvertRunning =>
        \A k \in 1..Len(json_files) :
            ~HasShapes(json_files[k]) =>
                /\ ~(pc = "convert_directory_to_csv:raised" /\ idx + 1 = k)
                /\ k <= idx => /\ Reported(json_files[k])
                            /\ process_json_file(json_files[k]).value = <<>>

\* C8: convert_directory_to_csv writes the output file if and only if the run
\* accumulated at least one record; otherwise the file is neither created nor
\* overwritten; a written file holds the header and one row per accumulated
\* record, in accumulation order.
C8_WrittenIffRecords ==
    ConvertEnded =>
        IF all_bboxes # <<>>
        THEN /\ output_csv.exists
             /\ output_csv.header = fieldnames
             /\ Len(output_csv.rows) = Len(all_bboxes)
             /\ \A k \in 1..Len(all_bboxes) : output_csv.rows[k] = Row(all_bboxes[k])
        ELSE output_csv \in {NoFile, StaleFile}

RECURSIVE ResultsOfFirst(_, _)
ResultsOfFirst(files, k) ==
    IF k = 0 THEN <<>>
    ELSE ResultsOfFirst(files, k - 1) \o process_json_file(files[k]).value

\* C10: the accumulated sequence is append-only: after k documents it is the
\* concatenation, in traversal order, of process_json_file's results for the
\* first k documents, and a step never changes what earlier documents gave.
C10_AppendOnlyConcatenation ==
    [][/\ ConvertRunning' => all_bboxes' = ResultsOfFirst(json_files', idx')
       /\ IsPrefix(all_bboxes, all_bboxes')
       /\ idx' = idx + 1 =>
             SubSeq(all_bboxes', Len(all_bboxes) + 1, Len(all_bboxes'))
                 = process_json_file(json_files[idx']).value]_vars

C10_Witness ==
    /\ pc = "convert_directory_to_csv:return"
    /\ idx = 3
    /\ process_json_file(json_files[1]).value # <<>>
    /\ process_json_file(json_files[2]).value = <<>>
    /\ process_json_file(json_files[3]).value # <<>>
    /\ process_json_file(json_files[3]).value # process_json_file(json_files[1]).value

(***************************************************************************)
(* The calls that return: wherever no exception escapes, the outcomes are  *)
(* the ones described above.                                               *)
(***************************************************************************)
ReturnedRecordsAsSpecified ==
    (pc = "process_json_file:return" /\ HasShapes(json_path))
        => bboxes.value = SpecRecords(json_path)

ReturnedVerticesAsSpecified ==
    (pc = "extract_polygon_points:return" /\ "points" \in DOMAIN shape)
        => /\ extracted.value = PairsOfLongEntries(shape.points)
           /\ extracted.value = SpecVertices(shape.points)

CompletedRunAsSpecified ==
    pc = "convert_directory_to_csv:return"
        => /\ C8_WrittenIffRecords
           /\ C6_MalformedDocumentSkipped

====
